---- MODULE Spec2Model ----
(***************************************************************************)
(* TasteTrove server: the cart handlers of the user controller and the     *)
(* payment handlers (createPaymentIntent, handleStripeWebhook), over the   *)
(* CartItem and Order tables of the Prisma schema.                         *)
(***************************************************************************)
EXTENDS Integers, Sequences, FiniteSets, TLC

\* ------------------------------------------------------------------ bounds
MaxQty == 2       \* largest productQuantity a request carries
MaxLen == 2       \* longest desired-item list of an updateCartItem request
MaxOrders == 2    \* payment intents the provider issues

\* ------------------------------------------------------------- the schema
VARIABLES
    product     \* Product table: the ids of the products of the catalogue

Products == product
Users == {"u1", "u2", "u3"}
Carts == {"c1", "c2"}
NoCart == "none"
NoUser == "guest"

\* Cart.userId @unique: the cart of a user; User.cart is optional (Cart?),
\* u3 is a user without a cart.
cartOf == [u \in Users |-> IF u = "u1" THEN "c1" ELSE IF u = "u2" THEN "c2" ELSE NoCart]

CartUsers == {u \in Users : cartOf[u] # NoCart}

OrderStatus == <<"paymentInitiated", "paymentSucceeded", "shipped", "delivered">>

\* {productId, productQuantity} of a request body
MutableCartItemPayload == [productId : Products, productQuantity : 0..MaxQty]

BSeq(S, n) == UNION {[1..k -> S] : k \in 0..n}

VARIABLES
    cartItem,   \* CartItem table: <<cartId, productId>> -> the quantities of the rows stored under that key
    orders,     \* Order table: a set of rows
    intents,    \* number of payment intents the provider has created
    cpUser,     \* createPaymentIntent request: orderDetails.userId of its body
    cpRes,      \* its answer: "none", "201", "next_err"
    cpPc,       \* where it stands: "idle", or "insert" between its two awaits
    cpItems,    \* the items of its body while it stands between the awaits
    ucPc,       \* updateCartItem request: "idle", "await" (batches dispatched)
    ucParam,    \* req.params.userId of that request
    ucUser,     \* res.locals.user of that request
    ucItems,    \* req.body of that request
    ucMap,      \* userCartMap of that request: productId -> stored quantity, -1 when absent
    ucBatch,    \* the three promises of Promise.all: "pending", "done", "failed"
    ucRes,      \* its answer: "none", "200", "next_err"
    whPc,       \* handleStripeWebhook request: "idle", "cleanup" (order updated, cart cleanup pending)
    whEvent,    \* the event of that request
    whOrder,    \* the order returned by prisma.order.update
    whBefore,   \* history: the status that order had before the update ("none" without one)
    whRes,      \* its answer: "none", "400", "404", "received", "next_err"
    env,        \* process.env: ACCESS_TOKEN_SECRET, REFRESH_TOKEN_SECRET
    now,        \* the clock, in units of 20 minutes
    authCookie, \* authenticateAccessToken request: req.cookies.accessToken
    authSent,   \* the response it has sent: "none", "401"
    authNext,   \* its call of next: "none", "next", "next_err"
    race,       \* history: the cart before two concurrent updateCartItem requests, and their bodies
    ucPc2,      \* the second updateCartItem request in flight: "idle", "await"
    ucItems2,   \* req.body of that request
    ucMap2,     \* userCartMap of that request
    ucBatch2,   \* its three promises
    ucRes2,     \* its answer
    localCart,     \* client: the cart of the browser, IndividualCartItem[]
    itemToEditId,  \* client: the arguments of the last updateLocalCart call
    newQuantity,
    addReq      \* the last addItemToCart request that is followed to its answer: params, body, answer

cartVars == <<ucPc, ucParam, ucUser, ucItems, ucMap, ucBatch, ucRes>>
whVars == <<whPc, whEvent, whOrder, whBefore, whRes>>
cpVars == <<intents, cpUser, cpRes, cpPc, cpItems>>
authVars == <<env, now, authCookie, authSent, authNext>>
raceVars == <<race, ucPc2, ucItems2, ucMap2, ucBatch2, ucRes2>>
\* what the handlers of the cart and payment specifications leave alone
localVars == <<localCart, itemToEditId, newQuantity>>
sideVars == <<product, raceVars, localVars, addReq>>
vars == <<cartItem, orders, intents, cpUser, cpRes, cpPc, cpItems, ucPc, ucParam, ucUser, ucItems, ucMap, ucBatch, ucRes, whPc, whEvent, whOrder, whBefore, whRes, env, now, authCookie, authSent, authNext, product, race, ucPc2, ucItems2, ucMap2, ucBatch2, ucRes2, localCart, itemToEditId, newQuantity, addReq>>

Absent == -1
Batches == {"updates", "deletes", "creates"}
NoOrder == [stripePaymentIntentId |-> 0, userId |-> NoUser, items |-> {}, orderStatus |-> "none"]
NoEvent == [sig |-> FALSE, type |-> "none", id |-> 0]

\* the secrets a deployment may set, and a token that is no token: the cookie
\* is missing
Secrets == {"s1", "s2"}
Envs == [ACCESS_TOKEN_SECRET : Secrets, REFRESH_TOKEN_SECRET : Secrets]
NoToken == [key |-> "none", id |-> "none", exp |-> 0]

\* the state after start-up under the environment e
InitEnv(e) ==
    /\ env = e
    /\ now = 0
    /\ authCookie = NoToken
    /\ authSent = "none"
    /\ authNext = "none"

\* no second request
NoRace == [before |-> <<>>, first |-> <<>>, second |-> <<>>]

InitSecond ==
    /\ ucPc2 = "idle"
    /\ ucItems2 = <<>>
    /\ ucMap2 = [p \in Products |-> Absent]
    /\ ucBatch2 = [b \in Batches |-> "done"]
    /\ ucRes2 = "none"

\* no order, no request in flight, an empty cart in the browser
InitRequests ==
    /\ localCart = <<>>
    /\ itemToEditId = "none"
    /\ newQuantity = 0
    /\ addReq = [userId |-> NoUser, productId |-> "none", productQuantity |-> 0, res |-> "none"]
    /\ orders = {}
    /\ intents = 0
    /\ cpUser = NoUser
    /\ cpRes = "none"
    /\ cpPc = "idle"
    /\ cpItems = {}
    /\ ucPc = "idle"
    /\ ucParam = "u1"
    /\ ucUser = "u1"
    /\ ucItems = <<>>
    /\ ucMap = [p \in Products |-> Absent]
    /\ ucBatch = [b \in Batches |-> "done"]
    /\ ucRes = "none"
    /\ whPc = "idle"
    /\ whEvent = NoEvent
    /\ whOrder = NoOrder
    /\ whBefore = "none"
    /\ whRes = "none"

\* a catalogue of two products, the tables are empty and no request is in flight
InitTables ==
    /\ product = {"A", "B"}
    /\ race = NoRace
    /\ InitSecond
    /\ cartItem = [k \in Carts \X Products |-> <<>>]
    /\ InitRequests

\* a deployment with two different secrets
Init == InitTables /\ InitEnv([ACCESS_TOKEN_SECRET |-> "s1", REFRESH_TOKEN_SECRET |-> "s2"])

\* ------------------------------------------------------ CartItem table
\* a Map keyed by the row id instead of the productId: no lookup by
\* productId finds a row
userCartMapKeyedById(tbl, cartId) == [p \in Products |-> Absent]

\* userCartMap: productId -> the stored row; a later row of the same
\* productId replaces an earlier one in the Map
userCartMap(tbl, cartId) ==
    [p \in Products |->
        LET rows == tbl[<<cartId, p>>]
        IN  IF rows = <<>> THEN Absent ELSE rows[Len(rows)]]

\* quantity 0 is not taken as the removal signal
ClassifyZeroAsUpdate(item, map) ==
    IF map[item.productId] = Absent THEN "create"
    ELSE IF map[item.productId] # item.productQuantity THEN "update"
    ELSE "none"

\* the batch an entry of the desired list goes to
Classify(item, map) ==
    IF item.productQuantity = 0 THEN "delete"
    ELSE IF map[item.productId] = Absent THEN "create"
    ELSE IF map[item.productId] # item.productQuantity THEN "update"
    ELSE "none"

\* a full-replace diff: the stored products the list does not mention are deleted
getActionArraysFullReplace(items, map) ==
    LET to(kind) == SelectSeq(items, LAMBDA it : Classify(it, map) = kind)
        unmentioned == {p \in Products : map[p] # Absent /\ \A i \in 1..Len(items) : items[i].productId # p}
        rest == IF unmentioned = {} THEN <<>> ELSE <<CHOOSE p \in unmentioned : TRUE>>
    IN  [creates |-> to("create"),
         updates |-> to("update"),
         deletes |-> [i \in 1..Len(to("delete")) |-> to("delete")[i].productId] \o rest]

\* the stored rows the list does not mention are written back as they were read
getActionArraysWritesBack(items, map) ==
    LET to(kind) == SelectSeq(items, LAMBDA it : Classify(it, map) = kind)
        unmentioned == {p \in Products : map[p] # Absent /\ \A i \in 1..Len(items) : items[i].productId # p}
        back(p) == [productId |-> p, productQuantity |-> map[p]]
        rest == IF unmentioned = {} THEN <<>> ELSE <<back(CHOOSE p \in unmentioned : TRUE)>>
    IN  [creates |-> to("create") \o rest,
         updates |-> to("update"),
         deletes |-> [i \in 1..Len(to("delete")) |-> to("delete")[i].productId]]

getActionArrays(items, map) ==
    LET to(kind) == SelectSeq(items, LAMBDA it : Classify(it, map) = kind)
    IN  [creates |-> to("create"),
         updates |-> to("update"),
         deletes |-> [i \in 1..Len(to("delete")) |-> to("delete")[i].productId]]

\* cartItem.update by the composite key cartId_productId, one per entry;
\* a missing row fails the batch
RECURSIVE updateCartItems(_, _, _)
updateCartItems(tbl, cartId, updates) ==
    IF updates = <<>> THEN [ok |-> TRUE, tbl |-> tbl]
    ELSE LET k == <<cartId, Head(updates).productId>>
         IN  IF tbl[k] = <<>> THEN [ok |-> FALSE, tbl |-> tbl]
             ELSE updateCartItems(
                    [tbl EXCEPT ![k] = [@ EXCEPT ![1] = Head(updates).productQuantity]],
                    cartId, Tail(updates))

\* a delete by the composite key per entry, which fails on a missing row
deleteCartItemsOneByOne(tbl, cartId, deletes) ==
    [ok |-> \A i \in 1..Len(deletes) : tbl[<<cartId, deletes[i]>>] # <<>>,
     tbl |-> [k \in DOMAIN tbl |->
                IF k[1] = cartId /\ \E i \in 1..Len(deletes) : deletes[i] = k[2]
                THEN <<>> ELSE tbl[k]]]

\* cartItem.deleteMany where cartId and productId in deletes
deleteCartItems(tbl, cartId, deletes) ==
    [ok |-> TRUE,
     tbl |-> [k \in DOMAIN tbl |->
                IF k[1] = cartId /\ \E i \in 1..Len(deletes) : deletes[i] = k[2]
                THEN <<>> ELSE tbl[k]]]

\* cartItem.create under @@unique([cartId, productId]), one per entry;
\* an existing row fails the batch
RECURSIVE createCartItems(_, _, _)
createCartItems(tbl, cartId, creates) ==
    IF creates = <<>> THEN [ok |-> TRUE, tbl |-> tbl]
    ELSE LET k == <<cartId, Head(creates).productId>>
         IN  IF tbl[k] # <<>> THEN [ok |-> FALSE, tbl |-> tbl]
             ELSE createCartItems(
                    [tbl EXCEPT ![k] = Append(@, Head(creates).productQuantity)],
                    cartId, Tail(creates))

\* a failing batch puts the cart back to what the request has read
RunBatchRollsBack(tbl, cartId, arrays, b) ==
    LET r == IF b = "updates" THEN updateCartItems(tbl, cartId, arrays.updates)
             ELSE IF b = "deletes" THEN deleteCartItems(tbl, cartId, arrays.deletes)
             ELSE createCartItems(tbl, cartId, arrays.creates)
    IN  [ok |-> r.ok,
         tbl |-> IF r.ok THEN r.tbl
                 ELSE [k \in DOMAIN tbl |->
                         IF k[1] # cartId THEN tbl[k]
                         ELSE IF ucMap[k[2]] = Absent THEN <<>> ELSE <<ucMap[k[2]]>>]]

\* one of the three batches of Promise.all, all or nothing
RunBatch(tbl, cartId, arrays, b) ==
    LET r == IF b = "updates" THEN updateCartItems(tbl, cartId, arrays.updates)
             ELSE IF b = "deletes" THEN deleteCartItems(tbl, cartId, arrays.deletes)
             ELSE createCartItems(tbl, cartId, arrays.creates)
    IN  [ok |-> r.ok, tbl |-> IF r.ok THEN r.tbl ELSE tbl]

\* ------------------------------------------------------- cart handlers
\* the row is created whether or not the cart holds the product already
addItemToCartNoUnique(userId, productId, productQuantity) ==
    /\ cartItem' =
         IF cartOf[userId] = NoCart
         THEN cartItem
         ELSE [cartItem EXCEPT ![<<cartOf[userId], productId>>] = Append(@, productQuantity)]
    /\ UNCHANGED <<orders, cpVars, authVars, cartVars, whVars, sideVars>>

\* prisma.cart.update({where: {userId}, data: {items: {create: ...}}}):
\* throws when the user has no cart or the row exists already
addItemToCart(userId, productId, productQuantity) ==
    /\ cartItem' =
         IF cartOf[userId] = NoCart \/ cartItem[<<cartOf[userId], productId>>] # <<>>
         THEN cartItem
         ELSE [cartItem EXCEPT ![<<cartOf[userId], productId>>] = Append(@, productQuantity)]
    /\ UNCHANGED <<orders, cpVars, authVars, cartVars, whVars, sideVars>>

\* findUnique of the cart (404 without one), then a nested delete by the
\* composite key, which throws when the row is missing
removeItemFromCart(userId, productId) ==
    /\ cartItem' =
         IF cartOf[userId] = NoCart \/ cartItem[<<cartOf[userId], productId>>] = <<>>
         THEN cartItem
         ELSE [cartItem EXCEPT ![<<cartOf[userId], productId>>] = <<>>]
    /\ UNCHANGED <<orders, cpVars, authVars, cartVars, whVars, sideVars>>

\* cartItem.deleteMany({where: {cart: {userId}}})
clearCart(userId) ==
    /\ cartItem' = [k \in DOMAIN cartItem |->
                      IF k[1] = cartOf[userId] THEN <<>> ELSE cartItem[k]]
    /\ UNCHANGED <<orders, cpVars, authVars, cartVars, whVars, sideVars>>

\* the cart that is read is the cart of the :userId of the route
updateCartItemOfRoute(userId, user, items) ==
    /\ ucPc = "idle"
    /\ ucPc' = "await"
    /\ ucParam' = userId
    /\ ucUser' = user
    /\ ucItems' = items
    /\ ucMap' = IF cartOf[userId] = NoCart THEN [p \in Products |-> Absent]
               ELSE userCartMap(cartItem, cartOf[userId])
    /\ ucBatch' = [b \in Batches |-> "pending"]
    /\ ucRes' = "none"
    /\ UNCHANGED <<cartItem, orders, cpVars, whVars, authVars, sideVars>>

\* updateCartItem up to Promise.all: read the cart of res.locals.user,
\* classify the body, dispatch the three batches
updateCartItem(userId, user, items) ==
    /\ ucPc = "idle"
    /\ ucPc' = "await"
    /\ ucParam' = userId
    /\ ucUser' = user
    /\ ucItems' = items
    /\ ucMap' = userCartMap(cartItem, cartOf[user])
    /\ ucBatch' = [b \in Batches |-> "pending"]
    /\ ucRes' = "none"
    /\ UNCHANGED <<cartItem, orders, cpVars, authVars, whVars, sideVars>>

\* what the handler answers once a batch has settled: Promise.all rejects
\* with the first failure, and resolves when all three are done
Answer(res, batch) ==
    IF res # "none" THEN res
    ELSE IF \E b \in Batches : batch[b] = "failed" THEN "next_err"
    ELSE IF \A b \in Batches : batch[b] = "done" THEN "200"
    ELSE "none"

\* one batch settles; the request is over, and its locals gone, when the
\* last of the three has settled (ucBatch and ucRes keep its outcome)
SettleBatch(b) ==
    /\ ucPc = "await"
    /\ ucBatch[b] = "pending"
    /\ LET r == RunBatch(cartItem, cartOf[ucUser], getActionArrays(ucItems, ucMap), b)
           batch == [ucBatch EXCEPT ![b] = IF r.ok THEN "done" ELSE "failed"]
           over == \A c \in Batches : batch[c] # "pending"
       IN  /\ cartItem' = r.tbl
           /\ ucBatch' = batch
           /\ ucRes' = Answer(ucRes, batch)
           /\ ucPc' = IF over THEN "idle" ELSE "await"
           /\ ucParam' = IF over THEN "u1" ELSE ucParam
           /\ ucUser' = IF over THEN "u1" ELSE ucUser
           /\ ucItems' = IF over THEN <<>> ELSE ucItems
           /\ ucMap' = IF over THEN [p \in Products |-> Absent] ELSE ucMap
    /\ UNCHANGED <<orders, cpVars, authVars, whVars, sideVars>>

\* the users whose cart requests the cart specification follows: u1 has a
\* cart, u3 has none; a row is added with a positive quantity, and the
\* desired list of updateCartItem carries 0 as the removal signal
CartActors == {"u1", "u3"}

AddItem == \E u \in CartActors, p \in Products, q \in 1..MaxQty : addItemToCart(u, p, q)
RemoveItem == \E u \in CartActors, p \in Products : removeItemFromCart(u, p)
ClearCart == \E u \in CartActors : clearCart(u)
UpdateCart ==
    \E u \in CartActors \cap CartUsers, items \in BSeq(MutableCartItemPayload, MaxLen) :
        updateCartItem(u, u, items)
Settle == \E b \in Batches : SettleBatch(b)

NextCart == AddItem \/ RemoveItem \/ ClearCart \/ UpdateCart \/ Settle

SpecCart == Init /\ [][NextCart]_vars

\* ---------------------------------------------------- payment handlers
\* a userId of a request body that is the id of no user
GhostUser == "ghost"

\* the order is stored under one and the same payment-intent id
createPaymentIntentFixedId(items, userId) ==
    /\ intents < MaxOrders
    /\ intents' = intents + 1
    /\ cpUser' = userId
    /\ cpRes' = IF userId = GhostUser THEN "next_err" ELSE "201"
    /\ orders' =
         IF userId = GhostUser THEN orders
         ELSE orders \cup {[stripePaymentIntentId |-> 1,
                            userId |-> userId,
                            items |-> items,
                            orderStatus |-> "paymentInitiated"]}
    /\ UNCHANGED <<cartItem, cpPc, cpItems, cartVars, whVars, authVars, sideVars>>

\* createPaymentIntent: the provider creates the intent, then the order is
\* inserted with status paymentInitiated, connected to the user when a userId
\* is given; the insert throws when no user has that id
createPaymentIntent(items, userId) ==
    /\ intents < MaxOrders
    /\ intents' = intents + 1
    /\ cpUser' = userId
    /\ cpRes' = IF userId = GhostUser THEN "next_err" ELSE "201"
    /\ orders' =
         IF userId = GhostUser THEN orders
         ELSE orders \cup {[stripePaymentIntentId |-> intents + 1,
                            userId |-> userId,
                            items |-> items,
                            orderStatus |-> "paymentInitiated"]}
    /\ UNCHANGED <<cartItem, cpPc, cpItems, cartVars, whVars, authVars, sideVars>>

\* prisma.order.update({where: {stripePaymentIntentId}, data: {orderStatus:
\* {set: 'paymentSucceeded'}}, include: {items: true}}): one statement that
\* finds the row by its unique key and writes it; it throws when no row has
\* the key
orderUpdate(ords, id) ==
    LET found == {o \in ords : o.stripePaymentIntentId = id}
        set(o) == [o EXCEPT !.orderStatus = "paymentSucceeded"]
    IN  IF found = {} THEN [thrown |-> TRUE, order |-> NoOrder, orders |-> ords]
        ELSE [thrown |-> FALSE,
              order |-> set(CHOOSE o \in found : TRUE),
              orders |-> (ords \ found) \cup {set(o) : o \in found}]

\* the whole cart of the user is emptied
CartCleanupWholeCart(tbl, userId, productIds) ==
    IF cartOf[userId] = NoCart THEN [thrown |-> TRUE, tbl |-> tbl]
    ELSE [thrown |-> FALSE,
          tbl |-> [k \in DOMAIN tbl |-> IF k[1] = cartOf[userId] THEN <<>> ELSE tbl[k]]]

\* prisma.user.update with the nested cart update items.deleteMany({productId:
\* {in: ...}}): throws when the user has no cart to update
CartCleanup(tbl, userId, productIds) ==
    IF cartOf[userId] = NoCart THEN [thrown |-> TRUE, tbl |-> tbl]
    ELSE [thrown |-> FALSE,
          tbl |-> [k \in DOMAIN tbl |->
                     IF k[1] = cartOf[userId] /\ k[2] \in productIds THEN <<>> ELSE tbl[k]]]

\* the status of the order of a payment intent, "none" without one
StatusOf(ords, id) ==
    IF \E o \in ords : o.stripePaymentIntentId = id
    THEN (CHOOSE o \in ords : o.stripePaymentIntentId = id).orderStatus
    ELSE "none"

\* the end of the try block: the 404 of a missing order, else the acknowledgement
WebhookAnswer(order) == IF order = NoOrder THEN "404" ELSE "received"

\* the catch swallows the error and the handler acknowledges
WebhookCatchAccepts == "received"

\* the catch of the try block
WebhookCatch == "next_err"

\* the signature error is handed to the generic error handler
SignatureErrorForwarded == "next_err"

\* the catch of stripe.webhooks.constructEvent:
\* res.status(400).send(`Webhook Error: ...`)
SignatureError == "400"

\* every event type is taken for a succeeded payment
IsPaymentSucceededAnyType(type) == TRUE

\* event.type === 'payment_intent.succeeded'
IsPaymentSucceeded(type) == type = "payment_intent.succeeded"

\* handleStripeWebhook up to its first await: the signature check, the event
\* type, the update of the order
handleStripeWebhook(sig, type, id) ==
    /\ whPc = "idle"
    /\ IF ~sig
       THEN /\ whEvent' = NoEvent
            /\ whOrder' = NoOrder
            /\ whBefore' = "none"
            /\ whRes' = SignatureError
            /\ UNCHANGED <<orders, whPc>>
       ELSE IF ~IsPaymentSucceeded(type)
       THEN /\ whEvent' = [sig |-> TRUE, type |-> type, id |-> 0]
            /\ whOrder' = NoOrder
            /\ whBefore' = "none"
            /\ whRes' = "received"
            /\ UNCHANGED <<orders, whPc>>
       ELSE LET r == orderUpdate(orders, id)
            IN  /\ whEvent' = [sig |-> TRUE, type |-> type, id |-> id]
                /\ whOrder' = r.order
                /\ whBefore' = StatusOf(orders, id)
                /\ orders' = r.orders
                /\ IF r.thrown
                   THEN whRes' = WebhookCatch /\ whPc' = "idle"
                   ELSE IF r.order.userId # NoUser
                   THEN whRes' = "none" /\ whPc' = "cleanup"
                   ELSE whRes' = WebhookAnswer(r.order) /\ whPc' = "idle"
    /\ UNCHANGED <<cartItem, cpVars, authVars, cartVars, sideVars>>

\* the second await: the purchased products leave the cart of the order's user
WebhookCleanup ==
    /\ whPc = "cleanup"
    /\ LET r == CartCleanup(cartItem, whOrder.userId, whOrder.items)
       IN  /\ cartItem' = r.tbl
           /\ whRes' = IF r.thrown THEN WebhookCatch ELSE WebhookAnswer(whOrder)
    /\ whPc' = "idle"
    /\ UNCHANGED <<orders, cpVars, authVars, cartVars, whEvent, whOrder, whBefore, sideVars>>

EventTypes == {"payment_intent.succeeded", "payment_intent.created"}

\* the checkouts the payment specification follows: orders of one or of two
\* products, placed by u1 (who has a cart), by u3 (who has none), by a guest,
\* or with a userId of no user; u2 places no order and fills its cart with
\* the default quantity
OrderItems == {{"A"}, {"A", "B"}}
OrderUsers == {"u1", "u3", NoUser, GhostUser}

CreateIntent == \E items \in OrderItems, u \in OrderUsers : createPaymentIntent(items, u)
Webhook ==
    \E sig \in BOOLEAN, type \in EventTypes, id \in 0..intents : handleStripeWebhook(sig, type, id)
PayAddItem ==
    \E u \in CartUsers, p \in Products, q \in 1..MaxQty :
        (u = "u1" \/ q = 1) /\ addItemToCart(u, p, q)

NextPay == CreateIntent \/ Webhook \/ WebhookCleanup \/ PayAddItem

SpecPay == Init /\ [][NextPay]_vars

\* every handler, all users
Next == NextCart \/ NextPay

Spec == Init /\ [][Next]_vars

\* ------------------------------------------------ cart reconciliation
\* the batches of the request in flight
ucArrays == getActionArrays(ucItems, ucMap)

ProductIds(entries) == {entries[i].productId : i \in 1..Len(entries)}
Elements(seq) == {seq[i] : i \in 1..Len(seq)}
Mentions(items, p) == {i \in 1..Len(items) : items[i].productId = p}
NoRepeat(items) == \A p \in Products : Cardinality(Mentions(items, p)) <= 1
BatchOrders == {o \in [1..3 -> Batches] : \A i, j \in 1..3 : i # j => o[i] # o[j]}

\* the table after the three batches have run in the order o, nothing else in between
Applied(tbl, cartId, arrays, o) ==
    LET t1 == RunBatch(tbl, cartId, arrays, o[1]).tbl
        t2 == RunBatch(t1, cartId, arrays, o[2]).tbl
    IN  RunBatch(t2, cartId, arrays, o[3]).tbl

\* the request has just read the cart: nothing has written to it since
FreshRead ==
    /\ ucPc = "await"
    /\ \A b \in Batches : ucBatch[b] = "pending"
    /\ userCartMap(cartItem, cartOf[ucUser]) = ucMap

\* C1 as stated: every productId that the desired list carries with quantity
\* 0 is in deletes and in neither updates nor creates.
C1_ZeroOnlyInDeletes ==
    ucPc = "await" =>
        \A i \in 1..Len(ucItems) :
            ucItems[i].productQuantity = 0 =>
                /\ ucItems[i].productId \in Elements(ucArrays.deletes)
                /\ ucItems[i].productId \notin ProductIds(ucArrays.updates)
                /\ ucItems[i].productId \notin ProductIds(ucArrays.creates)

\* C1 amended: every productId that the desired list carries with quantity 0
\* is in deletes; no entry of updates or creates has quantity 0, and such a
\* productId is in updates or creates only through another entry of the list
\* that gives it a non-zero quantity.
C1_ZeroRoutedToDeletes ==
    ucPc = "await" =>
        /\ \A e \in Elements(ucArrays.updates) \cup Elements(ucArrays.creates) :
                e.productQuantity # 0
        /\ \A i \in 1..Len(ucItems) :
            ucItems[i].productQuantity = 0 =>
                /\ ucItems[i].productId \in Elements(ucArrays.deletes)
                /\ ucItems[i].productId \in ProductIds(ucArrays.updates) \cup ProductIds(ucArrays.creates)
                     => \E j \in Mentions(ucItems, ucItems[i].productId) :
                            ucItems[j].productQuantity # 0

\* a stored row was named with quantity 0 and the deletes batch has removed it
C1_Witness ==
    /\ ucPc = "await"
    /\ ucBatch["deletes"] = "done"
    /\ \E i \in 1..Len(ucItems) :
        /\ ucItems[i].productQuantity = 0
        /\ ucMap[ucItems[i].productId] # Absent
        /\ cartItem[<<cartOf[ucUser], ucItems[i].productId>>] = <<>>

\* C2 as stated: an absent productId with quantity > 0 is a create, and after
\* the batches have been applied (in any order) a second reconcile of the same
\* list against the resulting cart has no creates.
C2_CreatesThenNone ==
    FreshRead =>
        /\ \A i \in 1..Len(ucItems) :
            ucItems[i].productQuantity > 0 /\ cartItem[<<cartOf[ucUser], ucItems[i].productId>>] = <<>>
                => ucItems[i] \in Elements(ucArrays.creates)
        /\ \A o \in BatchOrders :
            getActionArrays(ucItems,
                userCartMap(Applied(cartItem, cartOf[ucUser], ucArrays, o), cartOf[ucUser])).creates = <<>>

\* C2 amended: an absent productId with quantity > 0 is a create; when the
\* list names no productId twice, a second reconcile of the same list against
\* the cart the batches leave (in any order) has no creates.
C2_CreatesThenNoneNoRepeat ==
    FreshRead =>
        /\ \A i \in 1..Len(ucItems) :
            ucItems[i].productQuantity > 0 /\ cartItem[<<cartOf[ucUser], ucItems[i].productId>>] = <<>>
                => ucItems[i] \in Elements(ucArrays.creates)
        /\ NoRepeat(ucItems) =>
            \A o \in BatchOrders :
                getActionArrays(ucItems,
                    userCartMap(Applied(cartItem, cartOf[ucUser], ucArrays, o), cartOf[ucUser])).creates = <<>>

\* an absent product was created by the creates batch of the request
C2_Witness ==
    /\ ucPc = "await"
    /\ ucBatch["creates"] = "done"
    /\ NoRepeat(ucItems)
    /\ \E i \in 1..Len(ucItems) :
        /\ ucItems[i].productQuantity > 0
        /\ ucMap[ucItems[i].productId] = Absent
        /\ cartItem[<<cartOf[ucUser], ucItems[i].productId>>] = <<ucItems[i].productQuantity>>

\* the rows of a product in the cart of the request's user
Stored(p) == cartItem[<<cartOf[ucUser], p>>]

\* C3 as stated: for a stored productId of the list, a non-zero quantity that
\* differs from the stored one is an update to that quantity, and a quantity
\* equal to the stored one puts the productId in none of the batches.
C3_UpdateOrNothing ==
    FreshRead =>
        \A i \in 1..Len(ucItems) :
            LET p == ucItems[i].productId
                q == ucItems[i].productQuantity
            IN  Stored(p) # <<>> =>
                    /\ q # 0 /\ q # Stored(p)[1] =>
                        /\ ucItems[i] \in Elements(ucArrays.updates)
                        /\ updateCartItems(cartItem, cartOf[ucUser], ucArrays.updates).tbl[<<cartOf[ucUser], p>>] = <<q>>
                    /\ q = Stored(p)[1] =>
                        /\ p \notin ProductIds(ucArrays.updates)
                        /\ p \notin ProductIds(ucArrays.creates)
                        /\ p \notin Elements(ucArrays.deletes)

\* C3 amended: the same, for a productId the list names once.
C3_UpdateOrNothingNamedOnce ==
    FreshRead =>
        \A i \in 1..Len(ucItems) :
            LET p == ucItems[i].productId
                q == ucItems[i].productQuantity
            IN  Stored(p) # <<>> /\ Cardinality(Mentions(ucItems, p)) = 1 =>
                    /\ q # 0 /\ q # Stored(p)[1] =>
                        /\ ucItems[i] \in Elements(ucArrays.updates)
                        /\ updateCartItems(cartItem, cartOf[ucUser], ucArrays.updates).tbl[<<cartOf[ucUser], p>>] = <<q>>
                    /\ q = Stored(p)[1] =>
                        /\ p \notin ProductIds(ucArrays.updates)
                        /\ p \notin ProductIds(ucArrays.creates)
                        /\ p \notin Elements(ucArrays.deletes)

\* the updates batch has set a stored row to a different, non-zero quantity
C3_Witness ==
    /\ ucPc = "await"
    /\ ucBatch["updates"] = "done"
    /\ \E i \in 1..Len(ucItems) :
        /\ Cardinality(Mentions(ucItems, ucItems[i].productId)) = 1
        /\ ucMap[ucItems[i].productId] \notin {Absent, ucItems[i].productQuantity}
        /\ ucItems[i].productQuantity # 0
        /\ cartItem[<<cartOf[ucUser], ucItems[i].productId>>] = <<ucItems[i].productQuantity>>

\* C4: a batch of updateCartItem leaves the rows of every productId that the
\* desired list does not mention as they are (and the rows of other carts).
C4_UnmentionedUntouched ==
    [][ucPc = "await" /\ ucBatch' # ucBatch =>
          \A k \in DOMAIN cartItem :
              (k[1] # cartOf[ucUser] \/ Mentions(ucItems, k[2]) = {})
                  => cartItem'[k] = cartItem[k]]_vars

\* the deletes batch has removed a stored product of the list, and a stored
\* product that the list did not mention is still there with its quantity
C4_Witness ==
    /\ ucPc = "await"
    /\ ucBatch["deletes"] = "done"
    /\ \E p, r \in Products :
        /\ Mentions(ucItems, r) = {}
        /\ ucMap[r] # Absent
        /\ cartItem[<<cartOf[ucUser], r>>] = <<ucMap[r]>>
        /\ Mentions(ucItems, p) # {}
        /\ ucMap[p] # Absent
        /\ cartItem[<<cartOf[ucUser], p>>] = <<>>

\* C5: an entry with quantity 0 for a productId that is not in the cart is
\* in neither creates nor updates, its delete does not fail, and the delete
\* leaves a cart that does not hold the product as it is.
C5_ZeroOnAbsentIsNoOp ==
    ucPc = "await" =>
        \A i \in 1..Len(ucItems) :
            ucItems[i].productQuantity = 0 /\ ucMap[ucItems[i].productId] = Absent =>
                /\ ucItems[i] \notin Elements(ucArrays.creates)
                /\ ucItems[i] \notin Elements(ucArrays.updates)
                /\ RunBatch(cartItem, cartOf[ucUser], ucArrays, "deletes").ok
                /\ (\A j \in 1..Len(ucItems) :
                        ucItems[j].productQuantity = 0 =>
                            cartItem[<<cartOf[ucUser], ucItems[j].productId>>] = <<>>)
                     => RunBatch(cartItem, cartOf[ucUser], ucArrays, "deletes").tbl = cartItem

\* the updates and deletes batches have run for a list with a quantity-0
\* entry of a product that was not in the cart
C5_Witness ==
    /\ ucPc = "await"
    /\ ucBatch["deletes"] = "done"
    /\ ucBatch["updates"] = "done"
    /\ \E i \in 1..Len(ucItems) :
        /\ ucItems[i].productQuantity = 0
        /\ ucMap[ucItems[i].productId] = Absent
        /\ cartItem[<<cartOf[ucUser], ucItems[i].productId>>] = <<>>

\* ------------------------------------------------------ payment webhook
\* the last delivery was a validly signed payment_intent.succeeded event and
\* has been answered
Delivered ==
    /\ whPc = "idle"
    /\ whEvent.sig
    /\ whEvent.type = "payment_intent.succeeded"

Matching(id) == {o \in orders : o.stripePaymentIntentId = id}

\* C6: a validly signed payment_intent.succeeded event whose id matches an
\* order sets that order, and no other, to paymentSucceeded in the one step
\* that looks it up, and the handler answers {received: true}.
C6_PaidInOneStepAndAcknowledged ==
    [][/\ \A id \in 1..MaxOrders :
            (/\ whPc = "idle"
             /\ whEvent' = [sig |-> TRUE, type |-> "payment_intent.succeeded", id |-> id]
             /\ <<whVars, orders>>' # <<whVars, orders>>
             /\ intents' = intents
             /\ Matching(id) # {})
            => /\ orders' = {IF o.stripePaymentIntentId = id
                             THEN [o EXCEPT !.orderStatus = "paymentSucceeded"] ELSE o : o \in orders}
               /\ whPc' = "idle" => whRes' = "received"
       /\ whPc = "cleanup" /\ whPc' = "idle" => orders' = orders /\ whRes' = "received"]_vars

\* C7: a validly signed payment_intent.succeeded event whose id matches no
\* order is answered 404 {error: 'Order not found'}.
C7_UnknownOrderAnswered404 ==
    Delivered /\ Matching(whEvent.id) = {} => whRes = "404"

\* C8 as stated: such an event is still acknowledged with {received: true}.
C8_UnknownOrderAcknowledged ==
    Delivered /\ Matching(whEvent.id) = {} => whRes = "received"

\* C8 amended: such an event is not acknowledged: the handler answers with
\* an error, never with {received: true}.
C8_UnknownOrderNotAcknowledged ==
    Delivered /\ Matching(whEvent.id) = {} => whRes \in {"404", "next_err"}

\* an event for an id of no order has been answered, while an order exists
C8_Witness ==
    /\ Delivered
    /\ Matching(whEvent.id) = {}
    /\ orders # {}
    /\ whRes = "next_err"

\* C9: a payment_intent.succeeded event delivered again, for an order that an
\* earlier delivery has set to paymentSucceeded, does not error and leaves
\* the order paymentSucceeded.
C9_SecondDeliveryAcknowledged ==
    Delivered /\ whBefore = "paymentSucceeded" =>
        /\ whRes = "received"
        /\ StatusOf(orders, whEvent.id) = "paymentSucceeded"

C11_GuestOrCartlessAcknowledged ==
    /\ Delivered
    /\ Matching(whEvent.id) # {}
    /\ whOrder.userId = NoUser \/ cartOf[whOrder.userId] = NoCart
    => /\ whRes = "received"
       /\ StatusOf(orders, whEvent.id) = "paymentSucceeded"

\* C12: a webhook delivery whose signature fails verification is answered
\* 400 at once, the error is not handed to the generic error handler, and
\* the delivery changes no order and no cart.
C12_BadSignatureRejected ==
    [][whEvent' = NoEvent /\ whVars' # whVars =>
          /\ whRes' = "400"
          /\ whPc' = "idle"
          /\ orders' = orders
          /\ cartItem' = cartItem]_vars

\* a delivery with a bad signature has been answered 400 while an unpaid
\* order exists and its owner's cart holds the product of the order
C12_Witness ==
    /\ whPc = "idle"
    /\ whEvent = NoEvent
    /\ whRes = "400"
    /\ \E o \in orders :
        /\ o.orderStatus = "paymentInitiated"
        /\ o.userId = "u1"
        /\ \E p \in o.items : cartItem[<<"c1", p>>] # <<>>

\* C13: a validly signed event of a type other than payment_intent.succeeded
\* is answered {received: true} and changes no order and no cart.
C13_OtherEventOnlyAcknowledged ==
    [][/\ whEvent'.sig
       /\ whEvent'.type # "payment_intent.succeeded"
       /\ whVars' # whVars
       => /\ whRes' = "received"
          /\ whPc' = "idle"
          /\ orders' = orders
          /\ cartItem' = cartItem]_vars

\* an event of another type has been acknowledged while an unpaid order
\* exists and its owner's cart holds the product of the order
C13_Witness ==
    /\ whPc = "idle"
    /\ whEvent.sig
    /\ whEvent.type = "payment_intent.created"
    /\ whRes = "received"
    /\ \E o \in orders :
        /\ o.orderStatus = "paymentInitiated"
        /\ o.userId = "u1"
        /\ \E p \in o.items : cartItem[<<"c1", p>>] # <<>>

\* ------------------------------------------------------- order status
\* the place of a status in the enum OrderStatus
Rank(s) == CHOOSE i \in 1..Len(OrderStatus) : OrderStatus[i] = s

\* an administrative transition: a paid order is shipped, a shipped order
\* is delivered
adminForward(id) ==
    /\ \E o \in orders :
        /\ o.stripePaymentIntentId = id
        /\ o.orderStatus \in {"paymentSucceeded", "shipped"}
        /\ orders' = (orders \ {o}) \cup
                       {[o EXCEPT !.orderStatus = OrderStatus[Rank(o.orderStatus) + 1]]}
    /\ UNCHANGED <<cartItem, cpVars, authVars, cartVars, whVars, sideVars>>

AdminForward == \E id \in 1..MaxOrders : adminForward(id)

NextOrder == CreateIntent \/ Webhook \/ WebhookCleanup \/ AdminForward

\* checkouts, webhook deliveries and administrative transitions
SpecOrder == Init /\ [][NextOrder]_vars

\* C14: no step of a createPaymentIntent call, of a webhook delivery or of an
\* administrative forward transition moves an order's status to an earlier
\* place of paymentInitiated, paymentSucceeded, shipped, delivered.
C14_StatusOnlyForward ==
    [][\A o \in orders : \A n \in orders' :
          n.stripePaymentIntentId = o.stripePaymentIntentId =>
              Rank(n.orderStatus) >= Rank(o.orderStatus)]_vars

\* --------------------------------------------- the batches of a request
\* C15: updateCartItem answers the caller, with the success response or with
\* the error hand-off, only once all three batches have settled.
C15_AnsweredOnceAllSettled ==
    ucRes # "none" => \A b \in Batches : ucBatch[b] # "pending"

\* C16: the failure of one batch takes back nothing: the step in which a
\* batch fails leaves every row as the other batches and requests have
\* written it, so a request can end in an error with the cart changed.
C16_FailureRollsNothingBack ==
    [][(\E b \in Batches : ucBatch[b] = "pending" /\ ucBatch'[b] = "failed")
          => cartItem' = cartItem]_vars

\* the request has ended in an error, its creates batch failed, and the
\* write of its updates batch is in the cart, which differs from the cart
\* the request has read
C16_Witness ==
    /\ ucPc = "await"
    /\ ucRes = "next_err"
    /\ ucBatch["creates"] = "failed"
    /\ ucBatch["updates"] = "done"
    /\ \E e \in Elements(ucArrays.updates) :
        /\ ucMap[e.productId] # e.productQuantity
        /\ cartItem[<<cartOf[ucUser], e.productId>>] = <<e.productQuantity>>

\* ------------------------------------------------- the rows of a cart
\* the requests the rows specification follows next to the adds, removals
\* and clears of the cart specification: u1 sends desired lists that name a
\* product twice, that create, update and delete, and u1 checks out once and
\* pays
RowsLists ==
    {<<[productId |-> "A", productQuantity |-> 1], [productId |-> "A", productQuantity |-> 1]>>,
     <<[productId |-> "A", productQuantity |-> 2], [productId |-> "B", productQuantity |-> 1]>>,
     <<[productId |-> "A", productQuantity |-> 0], [productId |-> "B", productQuantity |-> 2]>>,
     <<[productId |-> "B", productQuantity |-> 1]>>}

RowsUpdateCart == \E items \in RowsLists : updateCartItem("u1", "u1", items)
RowsCheckout == intents = 0 /\ \E items \in OrderItems : createPaymentIntent(items, "u1")
RowsWebhook == \E id \in 1..intents : handleStripeWebhook(TRUE, "payment_intent.succeeded", id)

NextRows ==
    \/ AddItem \/ RemoveItem \/ ClearCart \/ RowsUpdateCart \/ Settle
    \/ RowsCheckout \/ RowsWebhook \/ WebhookCleanup

\* the cart handlers interleaved with checkouts and payment webhooks
SpecRows == Init /\ [][NextRows]_vars

\* C17: in every reachable state, whatever the interleaving of addItemToCart,
\* updateCartItem, removeItemFromCart, clearCart and payment webhooks, a cart
\* holds at most one CartItem row per productId.
C17_OneRowPerProduct ==
    \A k \in DOMAIN cartItem : Len(cartItem[k]) <= 1

\* a creates batch has failed on a product whose row the cart holds once,
\* after a payment webhook has cleaned the cart
C17_Witness ==
    /\ ucPc = "await"
    /\ ucBatch["creates"] = "failed"
    /\ \E e \in Elements(ucArrays.creates) : Len(cartItem[<<cartOf[ucUser], e.productId>>]) = 1
    /\ Delivered
    /\ whRes = "received"

\* ------------------------------------------------------------ checkout
\* C18: a createPaymentIntent call that answers 201 has created exactly one
\* order: its status is paymentInitiated, its payment-intent id is the id of
\* the intent just created, and its user is the userId of the request, a
\* guest order when none was supplied; and no two orders share a
\* payment-intent id.
C18_OneOrderPerIntent ==
    [][/\ intents' # intents /\ cpRes' = "201" =>
            \E o \in orders' :
                /\ o \notin orders
                /\ orders' = orders \cup {o}
                /\ o.orderStatus = "paymentInitiated"
                /\ o.stripePaymentIntentId = intents'
                /\ o.userId = cpUser'
       /\ \A o, n \in orders' :
            o.stripePaymentIntentId = n.stripePaymentIntentId => o = n]_vars

\* two checkouts have been answered 201: the order of a user and a guest
\* order, under the ids of their intents
C18_Witness ==
    /\ cpRes = "201"
    /\ cpUser = NoUser
    /\ \E o, n \in orders :
        /\ o.userId = "u1"
        /\ o.orderStatus = "paymentInitiated"
        /\ n.userId = NoUser
        /\ n.stripePaymentIntentId = intents
        /\ o.stripePaymentIntentId # n.stripePaymentIntentId

\* ------------------------------------------------------ authentication
MaxTime == 2           \* the clock stops here

AccessTtl == 1         \* expiresIn: '20m'
RefreshTtl == 1008     \* expiresIn: '14d'

\* jwt.sign(payload, secret, {expiresIn}): the token carries the user, the
\* end of its validity, and the signature of the secret
generateAccessToken(user, e, t) ==
    [key |-> e.ACCESS_TOKEN_SECRET, id |-> user, exp |-> t + AccessTtl]

generateRefreshToken(user, e, t) ==
    [key |-> e.REFRESH_TOKEN_SECRET, id |-> user, exp |-> t + RefreshTtl]

Null == [id |-> "null"]

\* verifyToken: jwt.verify against REFRESH_TOKEN_SECRET; resolves null on
\* any error (bad signature, expired), else the payload without iat and exp
verifyToken(token, e, t) ==
    IF token.key = e.REFRESH_TOKEN_SECRET /\ t < token.exp THEN [id |-> token.id] ELSE Null

\* noAccess() is called without return: the handler goes on to next()
authenticateFallsThrough(accessToken, e, t) ==
    IF accessToken = NoToken \/ verifyToken(accessToken, e, t) = Null
    THEN [sent |-> "401", next |-> "next"]
    ELSE [sent |-> "none", next |-> "next"]

\* the body of authenticateAccessToken: what it sends and how it calls next
authenticate(accessToken, e, t) ==
    IF accessToken = NoToken THEN [sent |-> "401", next |-> "none"]
    ELSE IF verifyToken(accessToken, e, t) = Null THEN [sent |-> "401", next |-> "none"]
    ELSE [sent |-> "none", next |-> "next"]

authenticateAccessToken(accessToken) ==
    /\ authCookie' = accessToken
    /\ authSent' = authenticate(accessToken, env, now).sent
    /\ authNext' = authenticate(accessToken, env, now).next
    /\ UNCHANGED <<cartItem, orders, cpVars, cartVars, whVars, env, now, sideVars>>

\* the accessToken cookie of a request: none, an access or a refresh token
\* the server has issued up to now, or a token signed by someone else
Cookies ==
    {NoToken}
    \cup {generateAccessToken(u, env, t) : u \in Users, t \in 0..now}
    \cup {generateRefreshToken(u, env, t) : u \in Users, t \in 0..now}
    \cup {[key |-> "forged", id |-> u, exp |-> now + AccessTtl] : u \in Users}

Authenticate == \E accessToken \in Cookies : authenticateAccessToken(accessToken)

Tick ==
    /\ now < MaxTime
    /\ now' = now + 1
    /\ UNCHANGED <<cartItem, orders, cpVars, cartVars, whVars, env, authCookie, authSent, authNext, sideVars>>

NextAuth == Authenticate \/ Tick

\* any deployment: the two secrets may be the same or differ
InitAuth == InitTables /\ \E e \in Envs : InitEnv(e)

SpecAuth == InitAuth /\ [][NextAuth]_vars

\* C19: authenticateAccessToken answers 401 and does not invoke next when
\* the accessToken cookie is missing or fails verification (it is not signed
\* with the secret verifyToken checks, or it has expired); it invokes next,
\* without an error, exactly when the token verifies; and it never both
\* sends 401 and invokes next.
C19_NoAccessOrNext ==
    [][/\ <<authCookie, authSent, authNext>>' # <<authCookie, authSent, authNext>> =>
            LET verifies == /\ authCookie' # NoToken
                            /\ authCookie'.key = env.REFRESH_TOKEN_SECRET
                            /\ now < authCookie'.exp
            IN  /\ ~verifies => authSent' = "401" /\ authNext' = "none"
                /\ verifies => authSent' = "none" /\ authNext' = "next"
       /\ ~(authSent' = "401" /\ authNext' # "none")]_vars

\* a token issued earlier has been accepted after a request without a cookie
\* or with a failing token had been turned away: next was invoked, nothing sent
C19_Witness ==
    /\ now > 0
    /\ authCookie # NoToken
    /\ authCookie.exp > now
    /\ authSent = "none"
    /\ authNext = "next"

\* ------------------------------------------------- the cart after payment
\* the rows of the cart of a user
CartRows(tbl, userId) == {k \in DOMAIN tbl : k[1] = cartOf[userId] /\ tbl[k] # <<>>}

RaceUser == "u1"

updateCartItemSecond(user, items) ==
    /\ ucPc2 = "idle"
    /\ ucPc2' = "await"
    /\ ucItems2' = items
    /\ ucMap2' = userCartMap(cartItem, cartOf[user])
    /\ ucBatch2' = [b \in Batches |-> "pending"]
    /\ ucRes2' = "none"
    /\ UNCHANGED <<cartItem, orders, cpVars, cartVars, whVars, authVars, product, race, localVars, addReq>>

SettleBatchSecond(b) ==
    /\ ucPc2 = "await"
    /\ ucBatch2[b] = "pending"
    /\ LET r == RunBatch(cartItem, cartOf[RaceUser], getActionArrays(ucItems2, ucMap2), b)
           batch == [ucBatch2 EXCEPT ![b] = IF r.ok THEN "done" ELSE "failed"]
           over == \A c \in Batches : batch[c] # "pending"
       IN  /\ cartItem' = r.tbl
           /\ ucBatch2' = batch
           /\ ucRes2' = Answer(ucRes2, batch)
           /\ ucPc2' = IF over THEN "idle" ELSE "await"
           /\ ucItems2' = IF over THEN <<>> ELSE ucItems2
           /\ ucMap2' = IF over THEN [p \in Products |-> Absent] ELSE ucMap2
    /\ UNCHANGED <<orders, cpVars, cartVars, whVars, authVars, product, race, localVars, addReq>>

\* the races the specification follows: a catalogue of three products; u1's
\* cart holds one A, and B and C with quantity 1 or not at all; each request
\* sets A to a non-zero quantity and may remove B and C or ask for two of them
RaceProducts == {"A", "B", "C"}

RaceBefore ==
    {[k \in Carts \X RaceProducts |->
        IF k[1] # cartOf[RaceUser] THEN <<>>
        ELSE IF k[2] = "A" THEN <<1>>
        ELSE IF k[2] = "B" THEN b ELSE c] :
     b \in {<<>>, <<1>>}, c \in {<<>>, <<1>>}}

RaceEntries(p) == {<<>>} \cup {<<[productId |-> p, productQuantity |-> q]>> : q \in {0, 2}}

RaceLists ==
    {<<[productId |-> "A", productQuantity |-> q]>> \o b \o c :
        q \in 1..MaxQty, b \in RaceEntries("B"), c \in RaceEntries("C")}

InitRace ==
    /\ product = RaceProducts
    /\ \E tbl \in RaceBefore, first \in RaceLists, second \in RaceLists :
        /\ race = [before |-> tbl, first |-> first, second |-> second]
        /\ cartItem = tbl
    /\ InitSecond
    /\ InitRequests
    /\ InitEnv([ACCESS_TOKEN_SECRET |-> "s1", REFRESH_TOKEN_SECRET |-> "s2"])

RaceFirst == ucRes = "none" /\ updateCartItem(RaceUser, RaceUser, race.first)
RaceSecond == ucRes2 = "none" /\ updateCartItemSecond(RaceUser, race.second)
SettleSecond == \E b \in Batches : SettleBatchSecond(b)

NextRace == RaceFirst \/ RaceSecond \/ Settle \/ SettleSecond

SpecRace == InitRace /\ [][NextRace]_vars

\* both requests have been answered and all their batches have settled
RaceOver == ucPc = "idle" /\ ucRes # "none" /\ ucPc2 = "idle" /\ ucRes2 # "none"

\* the cart after a request with the body items has run alone on tbl
Reconciled(tbl, items) ==
    Applied(tbl, cartOf[RaceUser],
            getActionArrays(items, userCartMap(tbl, cartOf[RaceUser])),
            CHOOSE o \in BatchOrders : TRUE)

\* the outcomes of the two serial orders
RaceSerial ==
    {Reconciled(Reconciled(race.before, race.first), race.second),
     Reconciled(Reconciled(race.before, race.second), race.first)}

\* the rows a list asks for under productId p
Asked(items, p) ==
    {IF items[i].productQuantity = 0 THEN <<>> ELSE <<items[i].productQuantity>> :
        i \in Mentions(items, p)}

RaceRowOfA == cartItem[<<cartOf[RaceUser], "A">>]

\* C21 as stated: when two concurrent updateCartItem requests on one cart
\* set the same stored product to non-zero quantities, then after both the
\* cart holds one row for it with one of the two quantities, and the rows of
\* the other products are those of one of the two serial orders.
C21_LastWriteWinsSerial ==
    RaceOver =>
        /\ RaceRowOfA \in Asked(race.first, "A") \cup Asked(race.second, "A")
        /\ \E tbl \in RaceSerial :
            \A p \in Products \ {"A"} :
                cartItem[<<cartOf[RaceUser], p>>] = tbl[<<cartOf[RaceUser], p>>]

\* C21 amended: after both requests the cart holds one row for the product,
\* with one of the two quantities, or with the quantity it had before when
\* the updates batch of both requests has failed; each row of another
\* product is as the cart held it before or as one of the requests asked
\* for it.
C21_LastWriteWinsPerRow ==
    RaceOver =>
        /\ Len(RaceRowOfA) = 1
        /\ \/ RaceRowOfA \in Asked(race.first, "A") \cup Asked(race.second, "A")
           \/ /\ RaceRowOfA = race.before[<<cartOf[RaceUser], "A">>]
              /\ ucBatch["updates"] = "failed"
              /\ ucBatch2["updates"] = "failed"
        /\ \A p \in Products \ {"A"} :
            cartItem[<<cartOf[RaceUser], p>>] \in
                {race.before[<<cartOf[RaceUser], p>>]}
                    \cup Asked(race.first, p) \cup Asked(race.second, p)

\* both requests have been answered 200, the cart holds the quantity of A
\* that one of them asked for, and its rows are those of neither serial order
C21_Witness ==
    /\ RaceOver
    /\ ucRes = "200"
    /\ ucRes2 = "200"
    /\ RaceRowOfA \in Asked(race.first, "A") \cup Asked(race.second, "A")
    /\ cartItem \notin RaceSerial

\* ------------------------------------------------- the cart of the browser
\* the item is appended whether or not the cart holds the product
updateLocalCartAppends(cart, id, q) ==
    IF q = 0 THEN SelectSeq(cart, LAMBDA cartItem_ : cartItem_.productId # id)
    ELSE Append(cart, [productId |-> id, productQuantity |-> q])

\* updateLocalCart: filter on quantity 0, else cart.with at the index that
\* findIndex returns, or a copy with the item appended
updateLocalCart(cart, id, q) ==
    IF Len(cart) = 0 /\ q = 0 THEN cart
    ELSE IF q = 0 THEN SelectSeq(cart, LAMBDA cartItem_ : cartItem_.productId # id)
    ELSE LET found == {i \in 1..Len(cart) : cart[i].productId = id}
         IN  IF found # {}
             THEN LET existingItemIndex == CHOOSE i \in found : \A j \in found : i <= j
                  IN  [cart EXCEPT ![existingItemIndex] = [productId |-> id, productQuantity |-> q]]
             ELSE Append(cart, [productId |-> id, productQuantity |-> q])

\* the reducer applies updateLocalCart to the cart of the browser
UpdateLocalCart ==
    \E id \in Products, q \in 0..MaxQty :
        /\ localCart' = updateLocalCart(localCart, id, q)
        /\ itemToEditId' = id
        /\ newQuantity' = q
        /\ UNCHANGED <<cartItem, orders, cpVars, cartVars, whVars, authVars, product, raceVars, addReq>>

\* a browser with a catalogue of three products
InitLocal ==
    /\ product = RaceProducts
    /\ race = NoRace
    /\ InitSecond
    /\ cartItem = [k \in Carts \X Products |-> <<>>]
    /\ InitRequests
    /\ InitEnv([ACCESS_TOKEN_SECRET |-> "s1", REFRESH_TOKEN_SECRET |-> "s2"])

NextLocal == UpdateLocalCart

SpecLocal == InitLocal /\ [][NextLocal]_vars

\* the entries of the other products, in their order
Others(cart, id) == SelectSeq(cart, LAMBDA cartItem_ : cartItem_.productId # id)

\* C22: updateLocalCart(cart, id, q) with q = 0 returns the cart without any
\* entry for id; with q # 0 and id present, the cart with that entry's
\* quantity replaced by q at the same position; with q # 0 and id absent,
\* the cart with {id, q} appended; the entries of the other products keep
\* their quantity and their order in all three cases.
C22_UpdateLocalCart ==
    [][LET id == itemToEditId'
           q == newQuantity'
           at == {i \in 1..Len(localCart) : localCart[i].productId = id}
       IN  /\ Others(localCart', id) = Others(localCart, id)
           /\ q = 0 => Mentions(localCart', id) = {}
           /\ q # 0 /\ at # {} =>
                /\ Len(localCart') = Len(localCart)
                /\ \A i \in at : localCart'[i] = [productId |-> id, productQuantity |-> q]
                /\ \A i \in 1..Len(localCart) : localCart'[i].productId = localCart[i].productId
           /\ q # 0 /\ at = {} =>
                localCart' = Append(localCart, [productId |-> id, productQuantity |-> q])]_vars

\* the cart holds three products and the call has replaced the quantity of
\* the one in the middle
C22_Witness ==
    /\ Len(localCart) = 3
    /\ localCart[2].productId = itemToEditId
    /\ localCart[2].productQuantity = newQuantity
    /\ newQuantity = MaxQty
    /\ localCart[1].productQuantity = 1

\* C23: an access token that generateAccessToken has issued for a user,
\* presented before its expiry in the accessToken cookie, is accepted by
\* authenticateAccessToken (next is invoked, nothing is sent), also when
\* ACCESS_TOKEN_SECRET and REFRESH_TOKEN_SECRET differ.
C23_AccessTokenAccepted ==
    [][/\ <<authCookie, authSent, authNext>>' # <<authCookie, authSent, authNext>>
       /\ \E u \in Users, t \in 0..now : authCookie' = generateAccessToken(u, env, t)
       /\ now < authCookie'.exp
       => authNext' = "next" /\ authSent' = "none"]_vars

\* ------------------------------------------------- the :userId of the route
\* the requests the route specification follows: u1 and u2 fill their carts,
\* and each of them sends desired lists under the :userId of any user
RouteUpdateCart ==
    \E userId \in Users, user \in CartUsers, items \in RowsLists :
        updateCartItem(userId, user, items)

NextRoute == PayAddItem \/ RouteUpdateCart \/ Settle

SpecRoute == Init /\ [][NextRoute]_vars

\* C24: updateCartItem reads and writes the cart of the authenticated user
\* only: what it reads and what each of its batches writes is fixed by the
\* store, the authenticated user and the body, whatever the :userId of the
\* route, and no cart but the authenticated user's changes.
C24_OnlyOwnCart ==
    [][/\ ucPc = "idle" /\ ucPc' = "await" =>
            ucMap' = userCartMap(cartItem, cartOf[ucUser'])
       /\ ucPc = "await" /\ ucBatch' # ucBatch =>
            /\ \E b \in Batches :
                 cartItem' = RunBatch(cartItem, cartOf[ucUser], getActionArrays(ucItems, ucMap), b).tbl
            /\ \A k \in DOMAIN cartItem : k[1] # cartOf[ucUser] => cartItem'[k] = cartItem[k]]_vars

\* u1 has sent a list under the :userId of u2: the updates batch has written
\* u1's cart, and u2's cart, which holds other rows, is as it was
C24_Witness ==
    /\ ucPc = "await"
    /\ ucUser = "u1"
    /\ ucParam = "u2"
    /\ ucBatch["updates"] = "done"
    /\ ucMap["A"] = 1
    /\ cartItem[<<"c1", "A">>] = <<2>>
    /\ cartItem[<<"c2", "A">>] = <<1>>
    /\ cartItem[<<"c2", "B">>] = <<1>>

\* ------------------------------------------- a cleanup the database rejects
\* the order comes back to the status it had before the webhook
WebhookCleanupFailsRollsBack ==
    /\ whPc = "cleanup"
    /\ whPc' = "idle"
    /\ whRes' = WebhookCatch
    /\ orders' = {IF o.stripePaymentIntentId = whEvent.id
                  THEN [o EXCEPT !.orderStatus = whBefore] ELSE o : o \in orders}
    /\ UNCHANGED <<cartItem, cpVars, authVars, cartVars, whEvent, whOrder, whBefore, sideVars>>

\* the second await rejects (the database is unreachable, the statement times
\* out): the nested update writes nothing, the order update of the first
\* await is its own statement and stays, and the catch hands the error on
WebhookCleanupFails ==
    /\ whPc = "cleanup"
    /\ whPc' = "idle"
    /\ whRes' = WebhookCatch
    /\ UNCHANGED <<cartItem, orders, cpVars, authVars, cartVars, whEvent, whOrder, whBefore, sideVars>>

NextFail == CreateIntent \/ Webhook \/ WebhookCleanup \/ WebhookCleanupFails \/ PayAddItem

SpecFail == Init /\ [][NextFail]_vars

\* the carts other than the cart of a user are the same in both tables
OtherCartsSame(tbl, tbl2, userId) ==
    \A k \in DOMAIN tbl : k[1] # cartOf[userId] => tbl2[k] = tbl[k]

\* C25: the status write comes strictly before the cart cleanup and the two
\* are not one transaction: a cleanup runs only for an order whose status
\* write succeeded; when it fails the order stays paymentSucceeded, the
\* purchased items stay in the cart and the error is handed to the error
\* handler instead of the acknowledgement; and a webhook step changes carts
\* only in the cleanup of an order whose status was written.
C25_StatusThenCleanup ==
    [][/\ whPc = "cleanup" =>
            /\ StatusOf(orders, whEvent.id) = "paymentSucceeded"
            /\ StatusOf(orders', whEvent.id) = "paymentSucceeded"
            /\ \/ whRes' = "received" /\ whOrder.userId \in CartUsers
                    /\ cartItem' = CartCleanup(cartItem, whOrder.userId, whOrder.items).tbl
               \/ whRes' = "next_err" /\ cartItem' = cartItem
               \/ UNCHANGED whVars
       /\ (whPc' = "cleanup" /\ whPc = "idle") =>
            /\ cartItem' = cartItem
            /\ StatusOf(orders', whEvent'.id) = "paymentSucceeded"
       /\ (whVars' # whVars /\ cartItem' # cartItem) =>
            /\ whPc = "cleanup"
            /\ OtherCartsSame(cartItem, cartItem', whOrder.userId)]_vars

\* the cleanup of u1's paid order of A has failed: the order is
\* paymentSucceeded, A is still in u1's cart, the error was handed on
C25_Witness ==
    /\ whPc = "idle"
    /\ whRes = "next_err"
    /\ whOrder # NoOrder
    /\ whOrder.userId = "u1"
    /\ whBefore = "paymentInitiated"
    /\ StatusOf(orders, whEvent.id) = "paymentSucceeded"
    /\ cartItem[<<"c1", "A">>] # <<>>

\* --------------------------- a payment webhook against an updateCartItem
\* the carts u1 may hold when its checkout starts
MixBefore ==
    {[k \in Carts \X {"A", "B"} |-> IF k[1] # cartOf[RaceUser] THEN <<>> ELSE row[k[2]]] :
     row \in [{"A", "B"} -> {<<>>, <<1>>}]}

\* u1 holds some cart and will send one desired list, which race.first keeps
InitMix ==
    /\ product = {"A", "B"}
    /\ \E tbl \in MixBefore, first \in BSeq(MutableCartItemPayload, MaxLen) :
        /\ race = [before |-> tbl, first |-> first, second |-> <<>>]
        /\ cartItem = tbl
    /\ InitSecond
    /\ InitRequests
    /\ InitEnv([ACCESS_TOKEN_SECRET |-> "s1", REFRESH_TOKEN_SECRET |-> "s2"])

\* one checkout of u1, the webhook of its payment, one updateCartItem of u1
MixCheckout == intents = 0 /\ \E items \in OrderItems : createPaymentIntent(items, RaceUser)
MixWebhook == whRes = "none" /\ handleStripeWebhook(TRUE, "payment_intent.succeeded", intents)
MixUpdateCart == ucRes = "none" /\ updateCartItem(RaceUser, RaceUser, race.first)

NextMix == MixCheckout \/ MixWebhook \/ WebhookCleanup \/ MixUpdateCart \/ Settle

SpecMix == InitMix /\ [][NextMix]_vars

\* the webhook has acknowledged the payment of u1's order, and the request
\* has been answered with all its batches settled
MixOver ==
    /\ whPc = "idle" /\ whRes = "received" /\ whOrder # NoOrder
    /\ ucPc = "idle" /\ ucRes # "none"

\* C26: when the payment webhook of u1's order and an updateCartItem request
\* of u1 have both completed, in whatever order their steps interleaved, no
\* purchased product that the desired list does not mention is in u1's cart.
C26_PurchasedUnmentionedAbsent ==
    MixOver =>
        \A p \in whOrder.items :
            Mentions(race.first, p) = {} => cartItem[<<cartOf[RaceUser], p>>] = <<>>

\* the request read the cart while it held A and B, the webhook then removed
\* both, and the request wrote after that: B, which the list does not
\* mention, is absent
C26_Witness ==
    /\ MixOver
    /\ race.before[<<"c1", "A">>] = <<1>>
    /\ race.before[<<"c1", "B">>] = <<1>>
    /\ race.first = <<[productId |-> "A", productQuantity |-> 2]>>
    /\ whOrder.items = {"A", "B"}
    /\ ucBatch["updates"] = "failed"
    /\ cartItem[<<"c1", "B">>] = <<>>

\* ------------------------------------- createPaymentIntent, await by await
\* the order is inserted under the id the intent will get, before the
\* provider is called
paymentIntentsCreateAfterOrder(items, userId, ok) ==
    /\ cpPc = "idle"
    /\ intents < MaxOrders
    /\ cpUser' = userId
    /\ orders' = orders \cup {[stripePaymentIntentId |-> intents + 1,
                               userId |-> userId,
                               items |-> items,
                               orderStatus |-> "paymentInitiated"]}
    /\ IF ok
       THEN /\ intents' = intents + 1
            /\ cpPc' = "insert"
            /\ cpItems' = items
            /\ cpRes' = "none"
       ELSE /\ cpRes' = "next_err"
            /\ UNCHANGED <<intents, cpPc, cpItems>>
    /\ UNCHANGED <<cartItem, cartVars, whVars, authVars, sideVars>>

\* the first await, stripe.paymentIntents.create: the provider creates the
\* intent and the handler goes on to the insert, or the call rejects and the
\* catch hands the error on
paymentIntentsCreate(items, userId, ok) ==
    /\ cpPc = "idle"
    /\ intents < MaxOrders
    /\ cpUser' = userId
    /\ IF ok
       THEN /\ intents' = intents + 1
            /\ cpPc' = "insert"
            /\ cpItems' = items
            /\ cpRes' = "none"
       ELSE /\ cpRes' = "next_err"
            /\ UNCHANGED <<intents, cpPc, cpItems>>
    /\ UNCHANGED <<cartItem, orders, cartVars, whVars, authVars, sideVars>>

\* the second await, prisma.order.create, under the id of the intent of
\* this call (the newest: one call is followed at a time): the insert throws
\* when no user has the userId or when the database rejects it, and the
\* catch hands the error on; else the order is stored and 201 is sent
orderCreate(ok) ==
    /\ cpPc = "insert"
    /\ cpPc' = "idle"
    /\ cpItems' = {}
    /\ IF ok /\ cpUser # GhostUser
       THEN /\ orders' = orders \cup {[stripePaymentIntentId |-> intents,
                                       userId |-> cpUser,
                                       items |-> cpItems,
                                       orderStatus |-> "paymentInitiated"]}
            /\ cpRes' = "201"
       ELSE /\ orders' = orders
            /\ cpRes' = "next_err"
    /\ UNCHANGED <<cartItem, intents, cpUser, cartVars, whVars, authVars, sideVars>>

IntentCreate ==
    \E items \in OrderItems, u \in OrderUsers, ok \in BOOLEAN : paymentIntentsCreate(items, u, ok)
IntentInsert == \E ok \in BOOLEAN : orderCreate(ok)

NextIntent == IntentCreate \/ IntentInsert \/ RowsWebhook \/ WebhookCleanup

SpecIntent == Init /\ [][NextIntent]_vars

\* the orders stored under a payment-intent id
OrdersOf(ords, id) == {o \in ords : o.stripePaymentIntentId = id}

\* C27 (orders): every order that exists stores the id of a payment intent
\* the provider has created, and while a call stands between its two awaits
\* no order with the id of its intent exists yet.
C27_OrderHasEarlierIntent ==
    /\ \A o \in orders : o.stripePaymentIntentId \in 1..intents
    /\ cpPc = "insert" => OrdersOf(orders, intents) = {}

\* C27: createPaymentIntent creates the intent before the order: the
\* provider call creates no order, and when it fails the error is handed to
\* the error handler with no order and no intent created; the insert that
\* follows either stores one order under the intent's id and sends 201, or
\* fails, and then no order with that id exists and the error is handed on
\* instead of the 201.
C27_IntentBeforeOrder ==
    [][/\ (cpPc = "idle" /\ cpVars' # cpVars) =>
            /\ orders' = orders
            /\ \/ cpPc' = "insert" /\ intents' = intents + 1 /\ cpRes' = "none"
               \/ cpPc' = "idle" /\ intents' = intents /\ cpRes' = "next_err"
       /\ (cpPc = "insert" /\ cpPc' = "idle") =>
            /\ intents' = intents
            /\ \/ /\ cpRes' = "201"
                  /\ Cardinality(OrdersOf(orders', intents)) = 1
                  /\ orders \subseteq orders'
               \/ /\ cpRes' = "next_err"
                  /\ orders' = orders
                  /\ OrdersOf(orders', intents) = {}
       /\ C27_OrderHasEarlierIntent']_vars

\* the insert of the second call has failed after its intent was created:
\* two intents exist, the first has its order, the second has none, and the
\* error was handed on
C27_Witness ==
    /\ cpPc = "idle"
    /\ cpRes = "next_err"
    /\ cpUser = "u1"
    /\ intents = 2
    /\ OrdersOf(orders, 1) # {}
    /\ OrdersOf(orders, 2) = {}

\* ------------------------------------------ addItemToCart with its answer
\* the row is created next to the row the cart holds already
cartUpdateCreateNoUnique(tbl, userId, productId, productQuantity) ==
    IF cartOf[userId] = NoCart
    THEN [thrown |-> TRUE, tbl |-> tbl]
    ELSE [thrown |-> FALSE,
          tbl |-> [tbl EXCEPT ![<<cartOf[userId], productId>>] = Append(@, productQuantity)]]

\* prisma.cart.update({where: {userId}, data: {items: {create: {productId,
\* productQuantity}}}}): throws when no cart has the userId, and when the
\* cart holds a row of the product (@@unique([cartId, productId])); a call
\* that throws writes nothing
cartUpdateCreate(tbl, userId, productId, productQuantity) ==
    IF cartOf[userId] = NoCart \/ tbl[<<cartOf[userId], productId>>] # <<>>
    THEN [thrown |-> TRUE, tbl |-> tbl]
    ELSE [thrown |-> FALSE,
          tbl |-> [tbl EXCEPT ![<<cartOf[userId], productId>>] = Append(@, productQuantity)]]

\* addItemToCart with its answer: 200 with the updated cart, or next(err)
addItemToCartAnswered(userId, productId, productQuantity) ==
    LET r == cartUpdateCreate(cartItem, userId, productId, productQuantity)
    IN  /\ cartItem' = r.tbl
        /\ addReq' = [userId |-> userId, productId |-> productId,
                      productQuantity |-> productQuantity,
                      res |-> IF r.thrown THEN "next_err" ELSE "200"]
        /\ UNCHANGED <<orders, cpVars, authVars, cartVars, whVars, product, raceVars, localVars>>

AddItemAnswered ==
    \E u \in Users, p \in Products, q \in 1..MaxQty : addItemToCartAnswered(u, p, q)
AddRemoveItem == \E u \in CartUsers, p \in Products : removeItemFromCart(u, p)

NextAdd == AddItemAnswered \/ AddRemoveItem

SpecAdd == Init /\ [][NextAdd]_vars

\* C28: an addItemToCart request for a product the user's cart holds already
\* hands the error to the error handler and leaves the cart table as it was:
\* the row keeps its quantity and no second row is stored.
C28_DuplicateAddFails ==
    [][(/\ addReq' # addReq
        /\ cartOf[addReq'.userId] # NoCart
        /\ cartItem[<<cartOf[addReq'.userId], addReq'.productId>>] # <<>>) =>
            /\ addReq'.res = "next_err"
            /\ cartItem' = cartItem]_vars

\* u1 holds A with quantity 1 and has asked to add A with quantity 2: the
\* error was handed on and the row is as it was
C28_Witness ==
    /\ addReq = [userId |-> "u1", productId |-> "A", productQuantity |-> 2, res |-> "next_err"]
    /\ cartItem[<<"c1", "A">>] = <<1>>

====
